---- MODULE Spec2Model ----
(***************************************************************************)
(* State-machine model of the snipping tool: the selection overlay         *)
(* (ui.py SelectionWindow), the capture cycle of the application shell     *)
(* (ui.py SnippingToolApp.capture_area / display_image / process_image),   *)
(* the vision client (image_processing.py) and the markdown-subset         *)
(* formatter (formatter.py).                                               *)
(*                                                                         *)
(* Python values are represented as follows: a str is a sequence of        *)
(* one-character strings (the backquote is written BT); None for a         *)
(* tuple-valued field is the empty sequence <<>>; None for a canvas item   *)
(* id is 0 (Tk ids start at 1);                                            *)
(* the text widget is the sequence of its insert calls since the last      *)
(* delete, each a record [text, tags].                                     *)
(***************************************************************************)
EXTENDS Integers, Sequences, FiniteSets, TLC

(***************************************************************************)
(* Bounds of the model.                                                    *)
(***************************************************************************)
\* canvas items one overlay may create (pointer-downs per overlay)
MaxItems == 2
\* pointer coordinates just above the drag threshold: MIN_DRAG + 0..MaxOver
MaxOver == 1

(***************************************************************************)
(* Program constants.                                                      *)
(***************************************************************************)
\* ui.py:82  "actual_right - actual_left > 5 and actual_bottom - actual_top > 5"
MIN_DRAG == 5
\* config.py:13  DISPLAY_SIZE = (400, 300)
DISPLAY_W == 400
DISPLAY_H == 300

(***************************************************************************)
(* Strings.                                                                *)
(***************************************************************************)
\* image_processing.py:56  f"Error processing image: {e}"
PROCESS_PREFIX ==
    << "E","r","r","o","r"," ","p","r","o","c","e","s","s","i","n","g"," ",
       "i","m","a","g","e",":"," " >>
\* ui.py:184  f"Error capturing image: {e}"
CAPTURE_PREFIX ==
    << "E","r","r","o","r"," ","c","a","p","t","u","r","i","n","g"," ",
       "i","m","a","g","e",":"," " >>

\* characters str.strip() removes (those of the model's alphabet)
IsSpace(c) == c \in {" ", "\n", "\t"}

RECURSIVE lstrip(_)
lstrip(s) == IF s # <<>> /\ IsSpace(Head(s)) THEN lstrip(Tail(s)) ELSE s

RECURSIVE rstrip(_)
rstrip(s) ==
    IF s # <<>> /\ IsSpace(s[Len(s)]) THEN rstrip(SubSeq(s, 1, Len(s) - 1)) ELSE s

\* str.strip()
strip(s) == rstrip(lstrip(s))

\* str.startswith(p)
startswith(s, p) == Len(s) >= Len(p) /\ SubSeq(s, 1, Len(p)) = p

\* s[n:]
DropFirst(s, n) == SubSeq(s, n + 1, Len(s))

\* index of the first line break of s, 0 when there is none
FirstBreak(s) ==
    IF \E i \in 1..Len(s) : s[i] = "\n"
    THEN CHOOSE i \in 1..Len(s) :
            s[i] = "\n" /\ \A j \in 1..(i - 1) : s[j] # "\n"
    ELSE 0

\* str.splitlines(): no empty last line after a final line break
RECURSIVE splitlines(_)
splitlines(s) ==
    IF s = <<>> THEN <<>>
    ELSE LET i == FirstBreak(s) IN
         IF i = 0 THEN << s >>
         ELSE << SubSeq(s, 1, i - 1) >> \o splitlines(DropFirst(s, i))

\* "\n".join(lines)
RECURSIVE join(_)
join(lines) ==
    IF lines = <<>> THEN <<>>
    ELSE IF Len(lines) = 1 THEN lines[1]
    ELSE lines[1] \o << "\n" >> \o join(Tail(lines))

(***************************************************************************)
(* The text widget.                                                        *)
(***************************************************************************)
\* text_widget.delete(1.0, tk.END)
EmptyWidget == <<>>

\* text_widget.insert(tk.END, text, tags): inserting "" adds nothing
insert(widget, text, tags) ==
    IF text = <<>> THEN widget
    ELSE Append(widget, [text |-> text, tags |-> tags])

\* the characters the widget shows
RECURSIVE WidgetText(_)
WidgetText(widget) ==
    IF widget = <<>> THEN <<>> ELSE Head(widget).text \o WidgetText(Tail(widget))

(***************************************************************************)
(* formatter.py                                                            *)
(***************************************************************************)
\* position of the first "**" of line at or after p, 0 when there is none
FirstStars(line, p) ==
    IF \E i \in p..(Len(line) - 1) : line[i] = "*" /\ line[i + 1] = "*"
    THEN CHOOSE i \in p..(Len(line) - 1) :
            /\ line[i] = "*" /\ line[i + 1] = "*"
            /\ \A j \in p..(i - 1) : ~(line[j] = "*" /\ line[j + 1] = "*")
    ELSE 0

\* a bold run that loses the block style of its line
BoldTagsOnly(base_tag) == {"bold"}

\* tags of a bold run: (base_tag, "bold") if base_tag else ("bold",)
BoldTags(base_tag) == base_tag \cup {"bold"}

\* the loop over BOLD_PATTERN.finditer(line) and the trailing insert;
\* start is start_idx + 1.  BOLD_PATTERN (two stars, a lazy group, two stars)
\* matches at the first "**" that has a later "**" at least two characters
\* on, up to the nearest such; matches do not overlap.
RECURSIVE BoldLoop(_, _, _, _)
BoldLoop(widget, line, base_tag, start) ==
    LET open  == FirstStars(line, start)
        close == IF open = 0 THEN 0 ELSE FirstStars(line, open + 2)
    IN  IF close = 0
        THEN IF start <= Len(line)
             THEN insert(widget, SubSeq(line, start, Len(line)), base_tag)
             ELSE widget
        ELSE BoldLoop(
                insert(insert(widget, SubSeq(line, start, open - 1), base_tag),
                       SubSeq(line, open + 2, close - 1), BoldTags(base_tag)),
                line, base_tag, close + 2)

insert_bold_text(widget, line, base_tag) == BoldLoop(widget, line, base_tag, 1)

\* the backquote character (the lexer admits none inside a string)
BT == "backquote"
FENCE == << BT, BT, BT >>
H3 == << "#", "#", "#", " " >>
\* the subheading marker without its space
H2_NoSpace == << "#", "#" >>
H2 == << "#", "#", " " >>
DASH == << "-", " " >>
NEWLINE == << "\n" >>

\* a loop body whose opening fence keeps the lines of the block before
FormatLineKeepingLines(st, line) ==
    LET stripped_line == strip(line) IN
    IF startswith(stripped_line, FENCE)
    THEN IF ~st.in_code_block
         THEN [st EXCEPT !.in_code_block = TRUE]
         ELSE [st EXCEPT
                 !.widget = insert(st.widget, join(st.code_lines) \o NEWLINE, {"code"}),
                 !.in_code_block = FALSE]
    ELSE IF st.in_code_block
    THEN [st EXCEPT !.code_lines = Append(st.code_lines, line)]
    ELSE IF startswith(stripped_line, H3)
    THEN [st EXCEPT !.widget =
            insert(insert_bold_text(st.widget, strip(DropFirst(stripped_line, 4)),
                                    {"heading"}), NEWLINE, {})]
    ELSE IF startswith(stripped_line, H2)
    THEN [st EXCEPT !.widget =
            insert(insert_bold_text(st.widget, strip(DropFirst(stripped_line, 3)),
                                    {"subheading"}), NEWLINE, {})]
    ELSE IF startswith(stripped_line, DASH)
    THEN [st EXCEPT !.widget =
            insert(insert_bold_text(st.widget, stripped_line, {"list"}), NEWLINE, {})]
    ELSE [st EXCEPT !.widget =
            insert(insert_bold_text(st.widget, line, {}), NEWLINE, {})]

\* the body of "for line in content.splitlines()" for one line;
\* st is [widget, in_code_block, code_lines]
FormatLine(st, line) ==
    LET stripped_line == strip(line) IN
    IF startswith(stripped_line, FENCE)
    THEN IF ~st.in_code_block
         THEN [st EXCEPT !.in_code_block = TRUE, !.code_lines = <<>>]
         ELSE [st EXCEPT
                 !.widget = insert(st.widget, join(st.code_lines) \o NEWLINE, {"code"}),
                 !.in_code_block = FALSE]
    ELSE IF st.in_code_block
    THEN [st EXCEPT !.code_lines = Append(st.code_lines, line)]
    ELSE IF startswith(stripped_line, H3)
    THEN [st EXCEPT !.widget =
            insert(insert_bold_text(st.widget, strip(DropFirst(stripped_line, 4)),
                                    {"heading"}), NEWLINE, {})]
    ELSE IF startswith(stripped_line, H2)
    THEN [st EXCEPT !.widget =
            insert(insert_bold_text(st.widget, strip(DropFirst(stripped_line, 3)),
                                    {"subheading"}), NEWLINE, {})]
    ELSE IF startswith(stripped_line, DASH)
    THEN [st EXCEPT !.widget =
            insert(insert_bold_text(st.widget, stripped_line, {"list"}), NEWLINE, {})]
    ELSE [st EXCEPT !.widget =
            insert(insert_bold_text(st.widget, line, {}), NEWLINE, {})]

\* a loop that passes over empty lines outside code blocks
RECURSIVE FormatLinesSkippingEmpty(_, _)
FormatLinesSkippingEmpty(st, lines) ==
    IF lines = <<>> THEN st
    ELSE IF Head(lines) = <<>> /\ ~st.in_code_block
    THEN FormatLinesSkippingEmpty(st, Tail(lines))
    ELSE FormatLinesSkippingEmpty(FormatLine(st, Head(lines)), Tail(lines))

RECURSIVE FormatLines(_, _)
FormatLines(st, lines) ==
    IF lines = <<>> THEN st
    ELSE FormatLines(FormatLine(st, Head(lines)), Tail(lines))

\* a formatter that emits a code block still open at the end of the input
format_flushing_open_block(widget, content) ==
    LET st == FormatLines([widget |-> EmptyWidget, in_code_block |-> FALSE,
                           code_lines |-> <<>>], splitlines(content))
    IN  IF st.in_code_block
        THEN insert(st.widget, join(st.code_lines) \o NEWLINE, {"code"})
        ELSE st.widget

\* a formatter without the delete of line 35
format_without_delete(widget, content) ==
    FormatLines([widget |-> widget, in_code_block |-> FALSE, code_lines |-> <<>>],
                splitlines(content)).widget

\* format_and_insert_text(text_widget, content): the widget afterwards
format_and_insert_text(widget, content) ==
    FormatLines([widget |-> EmptyWidget, in_code_block |-> FALSE, code_lines |-> <<>>],
                splitlines(content)).widget

(***************************************************************************)
(* image_processing.py                                                     *)
(***************************************************************************)
\* An image is <<pixels, width, height, mode>>: its pixel data, its size and
\* its PIL mode.  Pixel data are <<"samples", px>>, px giving each pixel row
\* by row as the tuple of its samples, or <<"screen", bbox>>, the pixels of
\* that rectangle of the screen, which are not spelled out: ImageGrab.grab
\* returns an RGB image of them.  NoImage stands for "no image".
NoImage == <<>>
ImageOf(bbox) ==
    << << "screen", bbox >>, bbox[3] - bbox[1], bbox[4] - bbox[2], "RGB" >>
Width(image) == image[2]
Height(image) == image[3]
Mode(image) == image[4]

\* the modes the PNG writer of PIL stores (the keys of its table of output
\* modes); save() raises OSError for any other mode
PngModes == { "1", "L", "LA", "I", "I;16", "P", "RGB", "RGBA" }

ModeName(mode) ==
    CASE mode = "CMYK" -> << "C", "M", "Y", "K" >>
      [] mode = "YCbCr" -> << "Y", "C", "b", "C", "r" >>
      [] mode = "HSV" -> << "H", "S", "V" >>
      [] mode = "LAB" -> << "L", "A", "B" >>
      [] mode = "F" -> << "F" >>
      [] OTHER -> << "?" >>

\* str(e) of that OSError: f"cannot write mode {mode} as PNG"
PngError(mode) ==
    << "c", "a", "n", "n", "o", "t", " ", "w", "r", "i", "t", "e", " ", "m", "o", "d", "e", " " >>
    \o ModeName(mode) \o << " ", "a", "s", " ", "P", "N", "G" >>

\* the first eight bytes of a PNG file
PNG_SIGNATURE == << 137, 80, 78, 71, 13, 10, 26, 10 >>

\* an unsigned number in two and in four bytes, most significant byte first
U16(n) == << n \div 256, n % 256 >>
U32(n) == U16(n \div 65536) \o U16(n % 65536)

\* bit depth and colour type the writer gives the header for a mode; samples
\* of mode I, 32 bits wide in memory, are written in 16 bits
BitDepth(mode) ==
    CASE mode = "1" -> 1
      [] mode \in { "I", "I;16" } -> 16
      [] OTHER -> 8
ColourType(mode) ==
    CASE mode \in { "1", "L", "I", "I;16" } -> 0
      [] mode = "RGB" -> 2
      [] mode = "P" -> 3
      [] mode = "LA" -> 4
      [] OTHER -> 6

\* a sample as the 16-bit packer stores it: cut off at 0 and at 65535
Clip16(v) == IF v < 0 THEN 0 ELSE IF v > 65535 THEN 65535 ELSE v

RECURSIVE ConcatAll(_)
ConcatAll(ss) == IF ss = <<>> THEN <<>> ELSE Head(ss) \o ConcatAll(Tail(ss))

\* bits packed eight to a byte, the first bit the most significant, the last
\* byte filled up with zeros
RECURSIVE BitsValue(_, _)
BitsValue(bits, k) ==
    IF k > Len(bits) THEN 0 ELSE bits[k] * 2^(8 - k) + BitsValue(bits, k + 1)
RECURSIVE PackBits(_)
PackBits(bits) ==
    IF Len(bits) <= 8 THEN << BitsValue(bits, 1) >>
    ELSE << BitsValue(SubSeq(bits, 1, 8), 1) >>
         \o PackBits(SubSeq(bits, 9, Len(bits)))

\* the bytes of one row of pixels
PackRow(row, mode) ==
    IF mode = "1"
    THEN PackBits([k \in 1..Len(row) |-> IF row[k][1] = 0 THEN 0 ELSE 1])
    ELSE IF BitDepth(mode) = 16
    THEN ConcatAll([k \in 1..Len(row) |-> U16(Clip16(row[k][1]))])
    ELSE ConcatAll(row)

\* the image data: each row behind a filter byte 0 (no filter).  For the
\* pixels of a screen rectangle, which this model does not spell out, the
\* rectangle stands in their place behind a byte 255.
PngData(image) ==
    LET px == image[1]
        w  == Width(image)
    IN  IF px[1] = "screen"
        THEN << 255 >> \o ConcatAll([k \in 1..4 |-> U16(px[2][k] % 65536)])
        ELSE ConcatAll([r \in 1..Height(image) |->
                          << 0 >> \o PackRow(SubSeq(px[2], (r - 1) * w + 1, r * w),
                                            Mode(image))])

\* line 14: image.save(buffered, format="PNG"): the bytes of the PNG file,
\* or the error raised.  Of the file the model keeps the signature, the
\* header fields (width, height, bit depth, colour type, compression,
\* filter, interlace) and the image data; the framing of the chunks, their
\* checksums and the compression of the data are left out.
image_save(image) ==
    IF Mode(image) \in PngModes
    THEN << "ok",
            PNG_SIGNATURE \o U32(Width(image)) \o U32(Height(image))
            \o << BitDepth(Mode(image)), ColourType(Mode(image)), 0, 0, 0 >>
            \o PngData(image) >>
    ELSE << "raise", PngError(Mode(image)) >>

\* the base64 alphabet
B64Alphabet ==
    << "A", "B", "C", "D", "E", "F", "G", "H", "I", "J", "K", "L", "M", "N",
       "O", "P", "Q", "R", "S", "T", "U", "V", "W", "X", "Y", "Z", "a", "b",
       "c", "d", "e", "f", "g", "h", "i", "j", "k", "l", "m", "n", "o", "p",
       "q", "r", "s", "t", "u", "v", "w", "x", "y", "z", "0", "1", "2", "3",
       "4", "5", "6", "7", "8", "9", "+", "/" >>

\* line 15: base64.b64encode(...).decode('utf-8'): four characters for each
\* three bytes, the last group filled up with "="
RECURSIVE b64encode(_)
b64encode(bytes) ==
    LET n == Len(bytes)
        v == bytes[1] * 65536
             + (IF n >= 2 THEN bytes[2] * 256 ELSE 0)
             + (IF n >= 3 THEN bytes[3] ELSE 0)
    IN  IF n = 0 THEN <<>>
        ELSE << B64Alphabet[v \div 262144 + 1],
                B64Alphabet[((v \div 4096) % 64) + 1],
                IF n >= 2 THEN B64Alphabet[((v \div 64) % 64) + 1] ELSE "=",
                IF n >= 3 THEN B64Alphabet[(v % 64) + 1] ELSE "=" >>
             \o (IF n > 3 THEN b64encode(SubSeq(bytes, 4, n)) ELSE <<>>)

\* an encoder that saves with format="JPEG": the file starts with the JPEG
\* marker and holds the samples approximated
encode_image_as_jpeg(image) ==
    << "return", b64encode(<< 255, 216, 255, 224 >> \o U16(Width(image))
                           \o U16(Height(image))) >>

\* encode_image_to_base64(image): <<"return", text>>, the text being the
\* base64 text of the PNG file, or <<"raise", text>> when save() raises
encode_image_to_base64(image) ==
    LET r == image_save(image) IN
    IF r[1] = "ok" THEN << "return", b64encode(r[2]) >> ELSE r

\* a try block that covers the create() call alone: an error while reading
\* the response leaves the function as an exception
ClientRaisesOnRead(outcome) ==
    IF outcome[1] = "ok"
    THEN << "return", strip(outcome[2]) >>
    ELSE IF outcome[1] = "read_raises"
    THEN << "raise", outcome[2] >>
    ELSE << "return", PROCESS_PREFIX \o outcome[2] >>

\* Outcomes of the remote call, as process_image_with_openai sees them:
\*   <<"ok", content>>      create() returned; choices[0].message.content
\*   <<"create_raises", text>>  create() raised e, str(e) = text
\*   <<"read_raises", text>>    choices[0].message.content.strip() raised e
\* process_image_with_openai(img, base64_image) under such an outcome: what
\* it does: <<"return", string>>, or <<"raise", text>> for an exception that
\* leaves it
process_image_with_openai(outcome) ==
    IF outcome[1] = "ok"
    THEN << "return", strip(outcome[2]) >>
    ELSE << "return", PROCESS_PREFIX \o outcome[2] >>

(***************************************************************************)
(* PIL Image.thumbnail, as called by display_image.                        *)
(***************************************************************************)
Abs(n) == IF n < 0 THEN -n ELSE n
Max2(a, b) == IF a >= b THEN a ELSE b
Min2(a, b) == IF a <= b THEN a ELSE b
CeilDiv(a, b) == IF a % b = 0 THEN a \div b ELSE (a \div b) + 1

\* round_aspect of Image.thumbnail: of the floor fl and the ceiling ce of the
\* scaled side, the one whose key (distance of the resulting aspect ratio from
\* the original's) is smaller.  The library computes the keys in floating
\* point, so when they are equal in exact arithmetic its rounding decides
\* between the two: both are outcomes.
round_aspect(fl, ce, kfl, kce) ==
    IF kfl < kce THEN {fl} ELSE IF kce < kfl THEN {ce} ELSE {fl, ce}

\* image.thumbnail((bw, bh)) for an image of size (w, h): the sizes the image
\* can have afterwards (one size, except on a tie of round_aspect).  An image
\* that fits the box is left alone; otherwise the aspect ratio is kept and
\* neither side goes below 1.
thumbnail(w, h, bw, bh) ==
    IF bw >= w /\ bh >= h THEN {<< w, h >>}
    ELSE IF bw * h >= bh * w
    THEN LET fl == (bh * w) \div h
             ce == CeilDiv(bh * w, h)
         IN  {<< Max2(x, 1), bh >> :
                 x \in round_aspect(fl, ce, Abs(w * bh - fl * h),
                                    Abs(w * bh - ce * h))}
    ELSE LET fl == (bw * h) \div w
             ce == CeilDiv(bw * h, w)
         IN  {<< bw, Max2(y, 1) >> :
                 y \in IF fl = 0 THEN {fl}
                       ELSE round_aspect(fl, ce, Abs(w * fl - bw * h) * ce,
                                         Abs(w * ce - bw * h) * fl)}

(***************************************************************************)
(* Inputs of the model.                                                    *)
(***************************************************************************)
\* event.x / event.y of the pointer events of the capture cycle
Points == { <<0, 0>>, <<5, 6>>, <<10, 10>>, <<800, 800>> }

\* (x, y) of get_virtual_screen_rect() on Windows: the primary display alone,
\* or a second monitor to the left of and above it
VirtualOrigins == { <<0, 0>>, <<-10, -10>> }

\* str(e) of the exceptions raised into the cycle
ErrorTexts == { << "b", "o", "o", "m" >>,
                << "a", " ", "*", "*", "b", "*", "*" >> }

\* response.choices[0].message.content of the answers
Responses == { << " ", "o", "k", "\n" >>,
               << "#", "#", "#", " ", "T", "\n", "*", "*", "b", "*", "*" >> }

VisionOutcomes ==
    { << "ok", r >> : r \in Responses }
    \cup { << k, e >> : k \in {"create_raises", "read_raises"}, e \in ErrorTexts }

(***************************************************************************)
(* State.                                                                  *)
(***************************************************************************)
VARIABLES
    \* the application shell (SnippingToolApp)
    pc,                 \* where capture_area stands: "idle" is the main loop
    is_snipping,        \* self.is_snipping
    main_visible,       \* the main window is not withdrawn
    image_label,        \* the image the preview shows, NoImage at first
    result_text,        \* the text widget
    img,                \* the captured image object of the running cycle
    base64_image,       \* the payload handed to the vision client
    outcome,            \* what the remote call did in this cycle
    answer,             \* what process_image_with_openai gave back
    win,                \* sys.platform.startswith('win')
    master,             \* the Tk application: "alive" or "destroyed"
    \* the overlay (SelectionWindow)
    top,                \* self.top: "none", "mapped" or "destroyed"
    screen_xy,          \* (self.screen_x, self.screen_y)
    start_xy,           \* (self.start_x, self.start_y), <<>> for None
    rect,               \* self.rect, 0 for None
    canvas_items,       \* ids of the items on self.canvas
    next_item,          \* the id the canvas gives its next item
    bbox,               \* self.bbox, <<>> for None
    destroy_scheduled,  \* an after(10, self.top.destroy) callback is pending
    coord_label,        \* which text self.coord_label shows
    button1,            \* pointer button 1 is held down (the environment)
    \* observers (not program state)
    last,               \* the handler that ran last
    errors,             \* what that handler did with the exceptions in it
    escaped,            \* the overlay has handled an Escape
    hid,                \* the cycle withdrew the main window
    steps,              \* the steps of the current or last cycle, in order
    active,             \* capture cycles admitted and not yet returned
    overlays            \* overlays created and not yet destroyed

shell_but_master ==
    << pc, is_snipping, main_visible, image_label, result_text, img,
       base64_image, outcome, answer, win >>
shell == << shell_but_master, master >>
overlay == << top, screen_xy, start_xy, rect, canvas_items, next_item, bbox,
              destroy_scheduled, coord_label, button1 >>
observers == << last, errors, escaped, hid, steps, active, overlays >>
vars == << shell, overlay, observers >>

\* the places where Tk dispatches events while capture_area is on the stack
\* (master.update(), top.update(), wait_window), and the main loop
DispatchPoints ==
    { "idle", "hide_update", "overlay_init", "waiting", "restore_update" }

Init ==
    /\ pc = "idle"
    /\ is_snipping = FALSE
    /\ main_visible = TRUE
    /\ image_label = NoImage
    /\ result_text = EmptyWidget
    /\ img = NoImage
    /\ base64_image = <<>>
    /\ outcome = <<>>
    /\ answer = <<>>
    /\ win \in BOOLEAN
    /\ master = "alive"
    /\ top = "none"
    /\ screen_xy = <<0, 0>>
    /\ start_xy = <<>>
    /\ rect = 0
    /\ canvas_items = {}
    /\ next_item = 1
    /\ bbox = <<>>
    /\ destroy_scheduled = FALSE
    /\ coord_label = ""
    /\ button1 = FALSE
    /\ last = "init"
    /\ errors = <<>>
    /\ escaped = FALSE
    /\ hid = FALSE
    /\ steps = <<>>
    /\ active = 0
    /\ overlays = 0

(***************************************************************************)
(* ui.py SelectionWindow                                                   *)
(***************************************************************************)
\* SelectionWindow.__init__, up to its top.update(); the overlay may come up
\* under a pointer whose button is already held
SelectionWindow_init(origin, held) ==
    /\ button1' = held
    /\ top' = "mapped"
    /\ screen_xy' = IF win THEN origin ELSE <<0, 0>>
    /\ start_xy' = <<>>
    /\ rect' = 0
    /\ canvas_items' = {}
    /\ next_item' = 1
    /\ bbox' = <<>>
    /\ destroy_scheduled' = FALSE
    /\ coord_label' = ""

\* the selection object is dropped when capture_area returns
SelectionDropped ==
    /\ button1' = FALSE
    /\ top' = "none"
    /\ screen_xy' = <<0, 0>>
    /\ start_xy' = <<>>
    /\ rect' = 0
    /\ canvas_items' = {}
    /\ next_item' = 1
    /\ bbox' = <<>>
    /\ destroy_scheduled' = FALSE
    /\ coord_label' = ""

\* the overlay's bindings are live: it is mapped and Tk is dispatching
Handling == top = "mapped" /\ pc \in { "overlay_init", "waiting" }

on_button_press(p) ==
    /\ Handling
    /\ ~button1
    /\ button1' = TRUE
    /\ next_item <= MaxItems
    /\ start_xy' = p
    /\ rect' = next_item
    /\ canvas_items' = canvas_items \cup { next_item }
    /\ next_item' = next_item + 1
    /\ coord_label' = "Start"
    /\ last' = "on_button_press"
    /\ errors' = <<>>
    /\ UNCHANGED << shell, top, screen_xy, bbox, destroy_scheduled,
                    escaped, hid, steps, active, overlays >>

\* exceptions as errors records them, with what became of them
LOGGED == << "logged", "TclError" >>
SWALLOWED == << "swallowed", "TclError" >>
REPORTED_TCL == << "reported", "TclError" >>
REPORTED_TYPE == << "reported", "TypeError" >>

\* canvas.coords moves the marker; an id whose item is gone moves nothing.
\* With self.rect None (no press yet) tkinter drops the None arguments from
\* the call.  What Tk makes of the arguments that are left depends on the
\* build: canvas.coords raises TclError and the handler ends before the
\* label is set (Python up to 3.11), or it finds no item, returns, and the
\* label is set (Python 3.12 and later).
on_move_press ==
    /\ Handling
    /\ button1
    /\ last' = "on_move_press"
    /\ \/ /\ rect = 0
          /\ coord_label' = coord_label
          /\ errors' = << REPORTED_TCL >>
       \/ /\ coord_label' = "Current"
          /\ errors' = <<>>
    /\ UNCHANGED << shell, top, screen_xy, start_xy, rect, canvas_items,
                    next_item, bbox, destroy_scheduled, button1, escaped, hid,
                    steps, active, overlays >>

\* What the calls of cleanup() do.  The first component says whether the
\* try body returns or raises TclError (in canvas.delete or in top.after),
\* the second whether the forced top.destroy() of the except branch returns
\* or raises.
CleanupOutcomes ==
    { << "returns", "returns" >>, << "raises", "returns" >>,
      << "raises", "raises" >> }

\* a cleanup with no try around its body: the error goes to the dispatcher
cleanup_unguarded(c) ==
    /\ master' = master
    /\ canvas_items' = canvas_items
    /\ destroy_scheduled' = IF c[1] = "returns" THEN TRUE ELSE destroy_scheduled
    /\ top' = top
    /\ overlays' = overlays
    /\ errors' = IF c[1] = "returns" THEN <<>> ELSE << REPORTED_TCL >>

\* cleanup(): the marker is deleted and the destroy is deferred; when one of
\* the two calls raises, the error is logged and the overlay is destroyed at
\* once, an error of that destroy being passed over.  Tk's destroy command
\* raises only when the application itself is gone, and the overlay with it:
\* after the except branch the overlay is off the screen either way, and
\* after a forced destroy that raised the application is destroyed.
cleanup(c) ==
    LET failed == c[1] = "raises" IN
    /\ master' = IF c = << "raises", "raises" >> THEN "destroyed" ELSE master
    /\ canvas_items' = IF failed THEN {}
                        ELSE IF rect # 0
                        THEN canvas_items \ { rect } ELSE canvas_items
    /\ destroy_scheduled' = ~failed
    /\ top' = IF failed THEN "destroyed" ELSE top
    /\ overlays' = IF failed THEN overlays - 1 ELSE overlays
    /\ errors' = IF ~failed THEN <<>>
                  ELSE IF c[2] = "returns" THEN << LOGGED >>
                  ELSE << LOGGED, SWALLOWED >>

\* the rectangle taken from press to release without min / max
ActualRectPressFirst(s, e, o, onwin) ==
    IF onwin
    THEN << s[1] + o[1], s[2] + o[2], e[1] + o[1], e[2] + o[2] >>
    ELSE << s[1], s[2], e[1], e[2] >>

\* the rectangle in the overlay's own coordinates, the origin left out
ActualRectLocal(s, e, o, onwin) ==
    << Min2(s[1], e[1]), Min2(s[2], e[2]), Max2(s[1], e[1]), Max2(s[2], e[2]) >>

\* lines 71-80: (actual_left, actual_top, actual_right, actual_bottom)
ActualRect(s, e, o, onwin) ==
    IF onwin
    THEN << Min2(s[1], e[1]) + o[1], Min2(s[2], e[2]) + o[2],
            Max2(s[1], e[1]) + o[1], Max2(s[2], e[2]) + o[2] >>
    ELSE << Min2(s[1], e[1]), Min2(s[2], e[2]),
            Max2(s[1], e[1]), Max2(s[2], e[2]) >>

\* line 82: the rectangle is large enough to be the selection
Accepted(a) == a[3] - a[1] > MIN_DRAG /\ a[4] - a[2] > MIN_DRAG

\* lines 82-83: self.bbox after a pointer-up, given self.bbox before it
ReleasedBBox(old, s, e, o, onwin) ==
    LET a == ActualRect(s, e, o, onwin) IN IF Accepted(a) THEN a ELSE old

\* with self.start_x None, min(None, end_x) raises TypeError: Tk reports the
\* error and the handler ends there, before cleanup
on_button_release(p) ==
    /\ Handling
    /\ button1
    /\ button1' = FALSE
    /\ last' = "on_button_release"
    /\ IF start_xy = <<>>
       THEN /\ errors' = << REPORTED_TYPE >>
            /\ UNCHANGED << bbox, canvas_items, destroy_scheduled, top,
                            overlays, master >>
       ELSE /\ bbox' = ReleasedBBox(bbox, start_xy, p, screen_xy, win)
            /\ \E c \in CleanupOutcomes : cleanup(c)
    /\ UNCHANGED << shell_but_master, screen_xy, start_xy, rect, next_item, coord_label,
                    escaped, hid, steps, active >>

on_escape ==
    /\ Handling
    /\ last' = "on_escape"
    /\ bbox' = <<>>
    /\ \E c \in CleanupOutcomes : cleanup(c)
    /\ escaped' = TRUE
    /\ UNCHANGED << shell_but_master, screen_xy, start_xy, rect, next_item, coord_label,
                    button1, hid, steps, active >>

\* the after(10, ...) callback: self.top.destroy().  Callbacks still pending
\* then find the window gone, and a second destroy does nothing.
destroy ==
    /\ Handling
    /\ destroy_scheduled
    /\ top' = "destroyed"
    /\ canvas_items' = {}
    /\ destroy_scheduled' = FALSE
    /\ overlays' = overlays - 1
    /\ last' = "destroy"
    /\ errors' = <<>>
    /\ UNCHANGED << shell, screen_xy, start_xy, rect, next_item, bbox,
                    coord_label, button1, escaped, hid, steps, active >>

(***************************************************************************)
(* ui.py SnippingToolApp                                                   *)
(***************************************************************************)
\* capture_area without its guard
AdmitAlways(flag) == TRUE

\* line 163: "if self.is_snipping: return"
Admit(flag) == ~flag

\* the flag reset at the end of the try body instead of in a finally block:
\* an exception leaves the flag set
FinallyOnlyOnReturn(path) ==
    /\ is_snipping' = IF path = << "raise" >> THEN is_snipping ELSE FALSE
    /\ active' = active - 1
    /\ pc' = "idle"
    /\ steps' = steps \o path
    /\ SelectionDropped
    /\ escaped' = FALSE

\* the finally block and the return, after the steps named
Finally(path) ==
    /\ is_snipping' = FALSE
    /\ active' = active - 1
    /\ pc' = "idle"
    /\ steps' = steps \o path
    /\ SelectionDropped
    /\ escaped' = FALSE

\* an except branch that inserts the message without the delete of line 186
CaptureErrorAppends(e) ==
    IF master = "alive"
    THEN /\ result_text' = insert(result_text, CAPTURE_PREFIX \o e, {})
         /\ Finally(<< "capture_error" >>)
         /\ errors' = <<>>
    ELSE /\ Finally(<< "raise" >>)
         /\ errors' = << REPORTED_TCL >>
         /\ UNCHANGED result_text

\* lines 183-187: the except branch of the capture, then the finally block.
\* The branch calls the text widget itself: once the application is
\* destroyed, result_text.delete (line 186) raises TclError, nothing is
\* inserted and the exception leaves capture_area through the finally
\* block.
CaptureError(e) ==
    IF master = "alive"
    THEN /\ result_text' = insert(EmptyWidget, CAPTURE_PREFIX \o e, {})
         /\ Finally(<< "capture_error" >>)
         /\ errors' = <<>>
    ELSE /\ Finally(<< "raise" >>)
         /\ errors' = << REPORTED_TCL >>
         /\ UNCHANGED result_text

\* The main window is closed while Tk dispatches events (the main loop, or an
\* update() or wait_window of a running cycle): Tk destroys the application
\* and every widget of it, the overlay and its pending callback included.
\* From then on each call of a widget raises TclError; capture_area, when on
\* the stack, runs on from its dispatch point, and the main loop ends when
\* it is reached.
master_destroy ==
    /\ pc \in DispatchPoints
    /\ master = "alive"
    /\ master' = "destroyed"
    /\ top' = IF top = "mapped" THEN "destroyed" ELSE top
    /\ canvas_items' = {}
    /\ destroy_scheduled' = FALSE
    /\ overlays' = IF top = "mapped" THEN overlays - 1 ELSE overlays
    /\ last' = "master_destroy"
    /\ errors' = <<>>
    /\ UNCHANGED << pc, is_snipping, main_visible, image_label, result_text,
                    img, base64_image, outcome, answer, win, screen_xy,
                    start_xy, rect, next_item, bbox, coord_label, button1,
                    escaped, hid, steps, active >>

\* The capture trigger: capture_area up to its first master.update().  A call
\* that is not admitted returns at once; an admitted one sets the flag and
\* withdraws the main window (or the withdraw raises, and the finally block
\* runs).
capture_area ==
    /\ pc \in DispatchPoints
    /\ master = "alive"
    /\ last' = "capture_area"
    /\ IF ~Admit(is_snipping)
       THEN /\ errors' = <<>>
            /\ UNCHANGED << shell, overlay, escaped, hid, steps, active,
                            overlays >>
       ELSE \/ /\ errors' = <<>>
               /\ is_snipping' = TRUE
               /\ active' = active + 1
               /\ main_visible' = FALSE
               /\ hid' = TRUE
               /\ steps' = << "hide" >>
               /\ pc' = "hide_update"
               /\ img' = NoImage
               /\ base64_image' = <<>>
               /\ outcome' = <<>>
               /\ answer' = <<>>
               /\ UNCHANGED << image_label, result_text, win, master, overlay,
                               escaped, overlays >>
            \/ /\ errors' = << REPORTED_TCL >>
               /\ is_snipping' = FALSE
               /\ hid' = FALSE
               /\ steps' = << "raise" >>
               /\ img' = NoImage
               /\ base64_image' = <<>>
               /\ outcome' = <<>>
               /\ answer' = <<>>
               /\ UNCHANGED << pc, main_visible, image_label, result_text, win,
                               master, overlay, escaped, active, overlays >>

\* lines 168-170 raise (master.update(), or building the overlay)
setup_raises ==
    /\ pc = "hide_update"
    /\ Finally(<< "raise" >>)
    /\ last' = "setup_raises"
    /\ errors' = << REPORTED_TCL >>
    /\ UNCHANGED << main_visible, image_label, result_text, img, base64_image,
                    outcome, answer, win, master, hid, overlays >>

\* line 170: selection = SelectionWindow(self.master)
create_overlay ==
    /\ pc = "hide_update"
    /\ master = "alive"
    /\ \E o \in VirtualOrigins, held \in BOOLEAN : SelectionWindow_init(o, held)
    /\ escaped' = FALSE
    /\ overlays' = overlays + 1
    /\ steps' = Append(steps, "overlay")
    /\ pc' = "overlay_init"
    /\ last' = "SelectionWindow"
    /\ errors' = <<>>
    /\ UNCHANGED << is_snipping, main_visible, image_label, result_text, img,
                    base64_image, outcome, answer, win, master, hid, active >>

\* line 171: wait_window(selection.top) is entered; on a window destroyed
\* during the overlay's own top.update() it raises TclError
wait_window ==
    /\ pc = "overlay_init"
    /\ last' = "wait_window"
    /\ IF top = "mapped"
       THEN /\ pc' = "waiting"
            /\ errors' = <<>>
            /\ UNCHANGED << is_snipping, steps, active, overlay, escaped >>
       ELSE /\ Finally(<< "raise" >>)
            /\ errors' = << REPORTED_TCL >>
    /\ UNCHANGED << main_visible, image_label, result_text, img, base64_image,
                    outcome, answer, win, master, hid, overlays >>

\* the wait returns and the grab follows with the main window still withdrawn
wait_returns_hidden ==
    /\ pc = "waiting"
    /\ top = "destroyed"
    /\ steps' = steps \o << "wait" >>
    /\ pc' = "restore_update"
    /\ last' = "wait_returns"
    /\ errors' = <<>>
    /\ UNCHANGED << is_snipping, main_visible, image_label, result_text, img,
                    base64_image, outcome, answer, win, master, overlay, escaped,
                    hid, active, overlays >>

\* a wait that does not wait: the cycle goes on with the overlay still mapped
wait_returns_while_mapped ==
    /\ pc = "waiting"
    /\ main_visible' = TRUE
    /\ steps' = steps \o << "wait", "restore" >>
    /\ pc' = "restore_update"
    /\ last' = "deiconify"
    /\ errors' = <<>>
    /\ UNCHANGED << is_snipping, image_label, result_text, img, base64_image,
                    outcome, answer, win, master, overlay, escaped, hid, active,
                    overlays >>

\* lines 171-174: the wait returns once the overlay is destroyed; deiconify.
\* When the application is gone, master.deiconify() raises and capture_area
\* leaves through the finally block with the main window still withdrawn.
wait_returns ==
    /\ pc = "waiting"
    /\ top = "destroyed"
    /\ last' = "deiconify"
    /\ IF master = "alive"
       THEN /\ main_visible' = TRUE
            /\ steps' = steps \o << "wait", "restore" >>
            /\ pc' = "restore_update"
            /\ errors' = <<>>
            /\ UNCHANGED << is_snipping, overlay, escaped, active >>
       ELSE /\ Finally(<< "wait", "raise" >>)
            /\ errors' = << REPORTED_TCL >>
            /\ UNCHANGED main_visible
    /\ UNCHANGED << image_label, result_text, img, base64_image, outcome,
                    answer, win, master, hid, overlays >>

\* a grab with no test of the result: with no selection, ImageGrab.grab
\* takes bbox=None for the whole screen
grab_without_test ==
    /\ pc = "restore_update"
    /\ last' = "grab"
    /\ \/ /\ img' = ImageOf(IF bbox = <<>> THEN << 0, 0, 800, 800 >> ELSE bbox)
          /\ steps' = Append(steps, "capture")
          /\ pc' = "grabbed"
          /\ errors' = <<>>
          /\ UNCHANGED << is_snipping, result_text, active, overlay, escaped >>
       \/ \E e \in ErrorTexts : CaptureError(e) /\ UNCHANGED img
    /\ UNCHANGED << main_visible, image_label, base64_image, outcome, answer,
                    win, master, hid, overlays >>

\* lines 175-179: "if selection.bbox:" and ImageGrab.grab(bbox=...)
grab ==
    /\ pc = "restore_update"
    /\ last' = "grab"
    /\ IF bbox = <<>>
       THEN /\ Finally(<< "no_selection" >>)
            /\ errors' = <<>>
            /\ UNCHANGED << img, result_text >>
       ELSE \/ /\ img' = ImageOf(bbox)
               /\ steps' = Append(steps, "capture")
               /\ pc' = "grabbed"
               /\ errors' = <<>>
               /\ UNCHANGED << is_snipping, result_text, active, overlay,
                               escaped >>
            \/ \E e \in ErrorTexts : CaptureError(e) /\ UNCHANGED img
    /\ UNCHANGED << main_visible, image_label, base64_image, outcome, answer,
                    win, master, hid, overlays >>

\* lines 180-181: img.save(...) and display_image(img); thumbnail resizes the
\* image object itself.  A failure of the save leaves the image as grabbed, a
\* failure after the thumbnail (ImageTk.PhotoImage, image_label.config)
\* leaves it resized, the label not yet set; with the application gone
\* ImageTk.PhotoImage always fails.
display_image ==
    /\ pc = "grabbed"
    /\ last' = "display_image"
    /\ \/ \E t \in thumbnail(Width(img), Height(img), DISPLAY_W, DISPLAY_H) :
          /\ master = "alive"
          /\ img' = << img[1], t[1], t[2], img[4] >>
          /\ image_label' = << img[1], t[1], t[2], img[4] >>
          /\ steps' = Append(steps, "display")
          /\ pc' = "displayed"
          /\ errors' = <<>>
          /\ UNCHANGED << is_snipping, result_text, active, overlay, escaped >>
       \/ \E e \in ErrorTexts : CaptureError(e) /\ UNCHANGED << img, image_label >>
       \/ \E e \in ErrorTexts,
             t \in thumbnail(Width(img), Height(img), DISPLAY_W, DISPLAY_H) :
          /\ img' = << img[1], t[1], t[2], img[4] >>
          /\ CaptureError(e)
          /\ UNCHANGED image_label
    /\ UNCHANGED << main_visible, base64_image, outcome, answer, win, master, hid,
                    overlays >>

\* line 182 and lines 153-156: process_image(img), then the finally block.
\* Anything process_image raises lands in the except branch of capture_area
\* (lines 183-187), which may raise in its turn.
process_image ==
    /\ pc = "displayed"
    /\ last' = "process_image"
    /\ \/ \E e \in ErrorTexts :
            /\ CaptureError(e)
            /\ UNCHANGED << base64_image, outcome, answer >>
       \/ \E o \in VisionOutcomes :
            LET enc == encode_image_to_base64(img)
                r   == process_image_with_openai(o)
            IN  IF enc[1] = "raise"
                THEN /\ CaptureError(enc[2])
                     /\ UNCHANGED << base64_image, outcome, answer >>
                ELSE /\ base64_image' = enc[2]
                     /\ outcome' = o
                     /\ answer' = r
                     /\ IF r[1] = "return"
                        THEN /\ result_text' =
                                  format_and_insert_text(result_text, r[2])
                             /\ Finally(<< "encode", "vision", "render" >>)
                             /\ errors' = <<>>
                        ELSE CaptureError(r[2])
    /\ UNCHANGED << main_visible, image_label, img, win, master, hid, overlays >>

(***************************************************************************)
(* app.py, the shell in one file.  Its overlay, display_image and          *)
(* capture_area read as those of ui.py, its encoder and formatter as those *)
(* of image_processing.py and formatter.py; its process_image calls the    *)
(* remote service itself, inside a try of its own.                         *)
(***************************************************************************)
\* what happens inside process_image: an outcome of the remote call, or
\* <<"raise", text>> for an exception raised by another statement of it
CycleEvents == VisionOutcomes \cup { << "raise", e >> : e \in ErrorTexts }

\* app.py process_image(img), lines 192-237: the text widget afterwards.  The
\* try covers the encoding, the call and the formatting; the except branch
\* empties the widget and inserts the message as it is.
app_process_image(widget, image, event) ==
    LET enc == encode_image_to_base64(image) IN
    IF event[1] = "raise"
    THEN insert(EmptyWidget, PROCESS_PREFIX \o event[2], {})
    ELSE IF enc[1] = "raise"
    THEN insert(EmptyWidget, PROCESS_PREFIX \o enc[2], {})
    ELSE IF event[1] = "ok"
    THEN format_and_insert_text(widget, strip(event[2]))
    ELSE insert(EmptyWidget, PROCESS_PREFIX \o event[2], {})

Next ==
    \/ capture_area
    \/ setup_raises
    \/ create_overlay
    \/ wait_window
    \/ \E p \in Points : on_button_press(p)
    \/ on_move_press
    \/ \E p \in Points : on_button_release(p)
    \/ on_escape
    \/ destroy
    \/ wait_returns
    \/ grab
    \/ display_image
    \/ process_image
    \/ master_destroy

Spec == Init /\ [][Next]_vars

(***************************************************************************)
(* The overlay alone, from its construction to the shell's reading of the  *)
(* result, over a grid of pointer positions around the drag threshold.     *)
(***************************************************************************)
NearThreshold == { MIN_DRAG + d : d \in 0..MaxOver }
DragPoints ==
    ((({0} \cup NearThreshold) \X ({0} \cup NearThreshold)))
    \cup { <<10, 10>>, <<50, 50>> }
DragOrigins == { <<0, 0>>, <<-10, -10>>, <<-800, 0>> }

InitOverlay ==
    /\ pc = "overlay_init"
    /\ is_snipping = TRUE
    /\ main_visible = FALSE
    /\ image_label = NoImage
    /\ result_text = EmptyWidget
    /\ img = NoImage
    /\ base64_image = <<>>
    /\ outcome = <<>>
    /\ answer = <<>>
    /\ win \in BOOLEAN
    /\ master = "alive"
    /\ top = "mapped"
    /\ screen_xy \in (IF win THEN DragOrigins ELSE { <<0, 0>> })
    /\ start_xy = <<>>
    /\ rect = 0
    /\ canvas_items = {}
    /\ next_item = 1
    /\ bbox = <<>>
    /\ destroy_scheduled = FALSE
    /\ coord_label = ""
    /\ button1 \in BOOLEAN
    /\ last = "SelectionWindow"
    /\ errors = <<>>
    /\ escaped = FALSE
    /\ hid = TRUE
    /\ steps = << "hide", "overlay" >>
    /\ active = 1
    /\ overlays = 1

NextOverlay ==
    \/ wait_window
    \/ \E p \in DragPoints : on_button_press(p)
    \/ on_move_press
    \/ \E p \in DragPoints : on_button_release(p)
    \/ on_escape
    \/ destroy
    \/ wait_returns
    \/ master_destroy

SpecOverlay == InitOverlay /\ [][NextOverlay]_vars

(***************************************************************************)
(* The formatter alone: format_and_insert_text applied to the text widget, *)
(* for contents drawn from the sets below and a widget that shows the      *)
(* output of an earlier cycle.                                             *)
(***************************************************************************)
\* lines a content is made of: at most this many
MaxLines == 3
\* characters after the block marker of a one-line content: at most this many
MaxInline == 7

\* lines of the many-line contents: empty, plain, fence, heading, list item
BlockLines ==
    { << >>,
      << "a" >>,
      << BT, BT, BT >>,
      << "#", "#", "#", " ", "T" >>,
      << "-", " ", "*", "*", "b", "*", "*" >> }

RECURSIVE LineSeqs(_)
LineSeqs(n) ==
    IF n = 0 THEN { <<>> }
    ELSE LET S == LineSeqs(n - 1) IN
         S \cup { Append(ls, l) : ls \in S, l \in BlockLines }

\* the strings of stars and letters, of at most n characters
RECURSIVE InlineTexts(_)
InlineTexts(n) ==
    IF n = 0 THEN { <<>> }
    ELSE LET S == InlineTexts(n - 1) IN
         S \cup { Append(t, c) : t \in S, c \in { "*", "a" } }

\* one-line contents around the block markers
MarkerLines ==
    { << "#", "#", "#", " ", " ", "T" >>,
      << " ", " ", "#", "#", " ", "S", " " >>,
      << "\t", "-", " ", "i" >>,
      << "#", "#", "#", "#", " ", "T" >>,
      << "#", "#", "#", "T" >>,
      << "-", "i" >>,
      << " ", "a", " " >>,
      << BT, BT, BT, "#", "#", "#", " ", "T" >>,
      << "-", " ", BT, BT, BT >>,
      << " ", BT, BT, BT, "p", "y" >>,
      << "*", "*", "a", "*", "*", " ", "*", "*", "b", "*", "*" >>,
      << "-", " ", "x", " ", "*", "*", "a", "*", "*", " ", "y", " ", "*",
         "*", "b" >> }

\* the contents of section 8 of the specification
Scenario ==
    << "#", "#", "#", " ", "T", "i", "t", "l", "e", "\n", "p", "l", "a",
       "i", "n", " ", "*", "*", "b", "o", "l", "d", "*", "*", " ", "t", "e",
       "x", "t", "\n", "-", " ", "i", "t", "e", "m", " ", "o", "n", "e",
       "\n", "-", " ", "i", "t", "e", "m", " ", "*", "*", "t", "w", "o", "*",
       "*", "\n", BT, BT, BT, "\n", "c", "o", "d", "e", " ", "l", "i", "n",
       "e", "\n", BT, BT, BT >>
FenceAbc == << BT, BT, BT, "\n", "a", "b", "c" >>

\* contents with more than one code block, with marked-up and blank lines
\* inside a block, and with text after the backquotes of a fence
TwoBlocks ==
    << BT, BT, BT, "p", "y", "\n", " ", " ", "#", "#", "#", " ", "T", " ",
       "\n", "-", " ", "*", "*", "b", "*", "*", "\n", " ", BT, BT, BT, "x",
       "\n", "z", "\n", BT, BT, BT, "\n", " ", "q", " ", "\n", BT, BT, BT,
       "\n", "e", "n", "d" >>
EmptyBlock ==
    << BT, BT, BT, "\n", BT, BT, BT, "\n", BT, BT, BT, "\n", "a", "\n",
       "\n", "b", "\n", BT, BT, BT >>
BlankLineBlock ==
    << "a", "\n", BT, BT, BT, "\n", "\n", BT, BT, BT >>
ReopenedBlock ==
    << BT, BT, BT, "\n", "x", "\n", BT, BT, BT, "\n", BT, BT, BT, "\n",
       "y" >>
FencedContents == { TwoBlocks, EmptyBlock, BlankLineBlock, ReopenedBlock }

Contents ==
    { join(ls) : ls \in LineSeqs(MaxLines) }
    \cup { m \o t : m \in { <<>>, H3, H2, DASH }, t \in InlineTexts(MaxInline) }
    \cup MarkerLines
    \cup { Scenario, FenceAbc }
    \cup FencedContents

\* what the text widget shows when the call is made: nothing, the message of
\* a failed capture, or a rendered answer
PreviousWidgets ==
    { EmptyWidget,
      insert(EmptyWidget, CAPTURE_PREFIX \o << "o", "l", "d" >>, {}),
      << [text |-> << "o", "l", "d" >>, tags |-> {"heading"}],
         [text |-> NEWLINE, tags |-> {}],
         [text |-> << "o", "l", "d" >> \o NEWLINE, tags |-> {"code"}] >> }

InitFormat ==
    /\ pc = "format"
    /\ is_snipping = FALSE
    /\ main_visible = TRUE
    /\ image_label = NoImage
    /\ result_text \in PreviousWidgets
    /\ img = NoImage
    /\ base64_image = <<>>
    /\ outcome = <<>>
    /\ answer = <<>>
    /\ win \in BOOLEAN
    /\ master = "alive"
    /\ top = "none"
    /\ screen_xy = <<0, 0>>
    /\ start_xy = <<>>
    /\ rect = 0
    /\ canvas_items = {}
    /\ next_item = 1
    /\ bbox = <<>>
    /\ destroy_scheduled = FALSE
    /\ coord_label = ""
    /\ button1 = FALSE
    /\ last = "init"
    /\ errors = <<>>
    /\ escaped = FALSE
    /\ hid = FALSE
    /\ steps = <<>>
    /\ active = 0
    /\ overlays = 0

\* format_and_insert_text(self.result_text, content); answer records the
\* content, steps whether the delete of line 35 removed anything shown
format_text(content) ==
    /\ pc = "format"
    /\ answer' = << "return", content >>
    /\ result_text' = format_and_insert_text(result_text, content)
    /\ steps' = IF result_text = EmptyWidget
                 THEN << "render" >> ELSE << "delete", "render" >>
    /\ last' = "format_and_insert_text"
    /\ errors' = <<>>
    /\ UNCHANGED << pc, is_snipping, main_visible, image_label, img,
                    base64_image, outcome, win, master, overlay, escaped, hid,
                    active, overlays >>

\* the contents of the calls that follow the first one
LaterContents ==
    MarkerLines \cup { <<>>, Scenario, FenceAbc } \cup FencedContents

\* a first call with any of the contents, later calls with the later ones
NextFormat ==
    \/ \E content \in Contents : answer = <<>> /\ format_text(content)
    \/ \E content \in LaterContents : answer # <<>> /\ format_text(content)

SpecFormat == InitFormat /\ [][NextFormat]_vars

(***************************************************************************)
(* The encoder alone: encode_image_to_base64 applied to in-memory images   *)
(* of the sizes, sample values and modes below.                            *)
(***************************************************************************)
\* width and height of the images: at most this many pixels
MaxSide == 2

\* the pixels drawn for a mode, as tuples of samples: two for each mode, and
\* for mode I one within 16 bits, one above them and one below zero
PixelValues(mode) ==
    CASE mode = "1" -> { << 0 >>, << 255 >> }
      [] mode = "L" -> { << 0 >>, << 200 >> }
      [] mode = "LA" -> { << 0, 255 >>, << 200, 7 >> }
      [] mode = "RGB" -> { << 0, 0, 0 >>, << 255, 128, 1 >> }
      [] mode = "RGBA" -> { << 0, 0, 0, 0 >>, << 255, 128, 1, 77 >> }
      [] mode = "I" -> { << 300 >>, << 70000 >>, << -1 >> }
      [] mode = "I;16" -> { << 258 >>, << 65535 >> }
      [] mode = "F" -> { << 0 >>, << 1 >> }
      [] mode = "CMYK" -> { << 0, 0, 0, 0 >>, << 255, 128, 1, 77 >> }
      [] OTHER -> { << 0, 0, 0 >>, << 255, 128, 1 >> }

\* modes of PIL images.  Images of mode P are not drawn: their file also
\* holds the palette, and its bit depth depends on the size of the palette.
EncodeModes ==
    { "1", "L", "LA", "I", "I;16", "RGB", "RGBA", "CMYK", "YCbCr", "HSV",
      "LAB", "F" }

\* well-formed images: width x height pixels of the mode
EncodeImages ==
    UNION { { << << "samples", px >>, w, h, m >> :
                px \in [1..(w * h) -> PixelValues(m)] } :
            w \in 1..MaxSide, h \in 1..MaxSide, m \in EncodeModes }

InitEncode ==
    /\ pc = "encode"
    /\ is_snipping = FALSE
    /\ main_visible = TRUE
    /\ image_label = NoImage
    /\ result_text = EmptyWidget
    /\ img \in EncodeImages
    /\ base64_image = <<>>
    /\ outcome = <<>>
    /\ answer = <<>>
    /\ win = FALSE
    /\ master = "alive"
    /\ top = "none"
    /\ screen_xy = <<0, 0>>
    /\ start_xy = <<>>
    /\ rect = 0
    /\ canvas_items = {}
    /\ next_item = 1
    /\ bbox = <<>>
    /\ destroy_scheduled = FALSE
    /\ coord_label = ""
    /\ button1 = FALSE
    /\ last = "init"
    /\ errors = <<>>
    /\ escaped = FALSE
    /\ hid = FALSE
    /\ steps = <<>>
    /\ active = 0
    /\ overlays = 0

\* encode_image_to_base64(img); outcome records whether it returned or raised
encode_image ==
    /\ pc = "encode"
    /\ pc' = "encoded"
    /\ LET enc == encode_image_to_base64(img) IN
       IF enc[1] = "return"
       THEN base64_image' = enc[2] /\ outcome' = << "return" >>
       ELSE base64_image' = base64_image /\ outcome' = enc
    /\ last' = "encode_image_to_base64"
    /\ errors' = <<>>
    /\ UNCHANGED << is_snipping, main_visible, image_label, result_text, img,
                    answer, win, master, overlay, escaped, hid, steps, active,
                    overlays >>

NextEncode == encode_image

SpecEncode == InitEncode /\ [][NextEncode]_vars

(***************************************************************************)
(* Properties.                                                             *)
(***************************************************************************)
\* C1: a capture trigger that fires while a cycle is in progress changes
\* nothing (flag, main window, preview, text, overlay, no grab, no vision
\* call), so there is never more than one cycle or more than one overlay.
C1_ReentrantTriggerIsNoOp ==
    /\ [](active <= 1 /\ overlays <= 1)
    /\ [][ (is_snipping /\ last' = "capture_area")
           => UNCHANGED << shell, overlay, escaped, hid, steps, active, overlays >>
       ]_vars

\* a trigger was dispatched during the nested wait on the overlay
C1_Witness ==
    /\ pc = "waiting"
    /\ top = "mapped"
    /\ last = "capture_area"
    /\ is_snipping
    /\ active = 1
    /\ overlays = 1

\* C2: the flag is false at startup, true exactly while an admitted cycle
\* has not returned, false once it has returned by whatever path, and the
\* next trigger is then admitted.
C2_FlagTracksCycle ==
    /\ active \in {0, 1}
    /\ is_snipping <=> active = 1
    /\ pc = "idle" <=> active = 0
    /\ pc = "idle" => Admit(is_snipping)

\* a cycle ended by an exception while waiting on the overlay
C2_Witness ==
    /\ pc = "idle"
    /\ hid
    /\ steps = << "hide", "overlay", "raise" >>
    /\ ~is_snipping

\* C3: when a cycle that hid the main window has returned, the main window
\* is visible.
C3_WindowRestoredOnEveryExit == (pc = "idle" /\ hid) => main_visible

\* C4: once the overlay has handled an Escape, the result the shell reads is
\* "no selection" and no marker is left.
C4_EscapeYieldsNoSelection ==
    (escaped /\ pc = "restore_update") => (bbox = <<>> /\ canvas_items = {})

SmallDrag(s, e) == Abs(e[1] - s[1]) <= 5 \/ Abs(e[2] - s[2]) <= 5

\* C5: after a pointer-up that ends a drag of at most 5 pixels in x or in y
\* the result is "no selection"; a result that is a rectangle is more than
\* 5 pixels wide and high.
C5_SmallDragNoSelection ==
    /\ [](bbox # <<>> => (bbox[3] - bbox[1] > 5 /\ bbox[4] - bbox[2] > 5))
    /\ [][ \A p \in DragPoints :
             (last' = "on_button_release" /\ start_xy # <<>> /\ SmallDrag(start_xy, p)
              /\ on_button_release(p))
             => bbox' = <<>>
       ]_vars

\* C6: a drag pressed at P and released at Q gives the result of the drag
\* pressed at Q and released at P; a rectangle has left <= right and
\* top <= bottom; (50,50)->(10,10) and (10,10)->(50,50) give (10,10,50,50)
\* at origin (0,0).
C6_Normalization ==
    [][ \A q \in DragPoints :
          (last' = "on_button_release" /\ start_xy # <<>> /\ on_button_release(q))
          => /\ bbox' = ReleasedBBox(bbox, q, start_xy, screen_xy, win)
             /\ bbox' # <<>> => (bbox'[1] <= bbox'[3] /\ bbox'[2] <= bbox'[4])
             /\ (screen_xy = <<0, 0>>
                 /\ {start_xy, q} = { <<10, 10>>, <<50, 50>> })
                => bbox' = <<10, 10, 50, 50>>
    ]_vars

\* the one drag of an overlay, pressed at (50,50) and released at (10,10)
C6_Witness ==
    /\ last = "on_button_release"
    /\ next_item = 2
    /\ ~escaped
    /\ start_xy = <<50, 50>>
    /\ screen_xy = <<0, 0>>
    /\ bbox = <<10, 10, 50, 50>>

\* C7 as claimed: the pixel grab happens while the main window is still
\* hidden, before it is restored.
C7_GrabWhileHidden ==
    /\ pc = "grabbed" => ~main_visible
    /\ \A i \in 1..Len(steps) :
         steps[i] = "capture" => \A j \in 1..i : steps[j] # "restore"

\* C7 amended: the pixel grab happens after the main window is restored,
\* while it is visible: hide, overlay, wait, restore, capture, display,
\* then encode, vision call and render.
C7_GrabAfterRestore ==
    /\ pc = "grabbed" => main_visible
    /\ \A i \in 1..Len(steps) :
         steps[i] = "capture"
         => SubSeq(steps, 1, i) = << "hide", "overlay", "wait", "restore", "capture" >>
    /\ (steps # <<>> /\ steps[Len(steps)] = "render")
       => steps = << "hide", "overlay", "wait", "restore", "capture", "display",
                     "encode", "vision", "render" >>

\* the selected rectangle has just been grabbed
C7_Witness == pc = "grabbed" /\ hid /\ main_visible /\ img = ImageOf(bbox)

\* Reading a payload back: base64 text to bytes, bytes to image.
B64Index(c) == CHOOSE i \in 0..63 : B64Alphabet[i + 1] = c

\* three bytes for each four characters, fewer where the group ends in "="
RECURSIVE b64decode(_)
b64decode(text) ==
    IF Len(text) < 4 THEN <<>>
    ELSE LET pad == IF text[4] # "=" THEN 0 ELSE IF text[3] # "=" THEN 1 ELSE 2
             v == B64Index(text[1]) * 262144 + B64Index(text[2]) * 4096
                  + (IF pad < 2 THEN B64Index(text[3]) * 64 ELSE 0)
                  + (IF pad < 1 THEN B64Index(text[4]) ELSE 0)
             b == << v \div 65536, (v \div 256) % 256, v % 256 >>
         IN  SubSeq(b, 1, 3 - pad) \o b64decode(SubSeq(text, 5, Len(text)))

FromU16(b, k) == b[k] * 256 + b[k + 1]
FromU32(b, k) == FromU16(b, k) * 65536 + FromU16(b, k + 2)
Signed16(v) == IF v >= 32768 THEN v - 65536 ELSE v

\* the mode a reader gives an image of that bit depth and colour type
ModeRead(depth, colour) ==
    CASE depth = 1 /\ colour = 0 -> "1"
      [] depth = 8 /\ colour = 0 -> "L"
      [] depth = 8 /\ colour = 2 -> "RGB"
      [] depth = 8 /\ colour = 4 -> "LA"
      [] depth = 8 /\ colour = 6 -> "RGBA"
      [] depth = 16 /\ colour = 0 -> "I;16"
      [] OTHER -> "?"
Bands(mode) ==
    CASE mode = "LA" -> 2 [] mode = "RGB" -> 3 [] mode = "RGBA" -> 4
      [] OTHER -> 1
RowBytes(w, mode) ==
    CASE mode = "1" -> (w + 7) \div 8
      [] mode = "I;16" -> 2 * w
      [] OTHER -> w * Bands(mode)

\* pixel p of row r of the image data
PixelRead(data, w, mode, r, p) ==
    LET at == (r - 1) * (1 + RowBytes(w, mode)) + 1 IN
    IF mode = "1"
    THEN << 255 * ((data[at + (p - 1) \div 8 + 1] \div 2^(7 - ((p - 1) % 8))) % 2) >>
    ELSE IF mode = "I;16"
    THEN << FromU16(data, at + 2 * (p - 1) + 1) >>
    ELSE [b \in 1..Bands(mode) |-> data[at + (p - 1) * Bands(mode) + b]]

\* the image of a PNG file as image_save writes it, NoImage for other bytes
PngDecode(bytes) ==
    IF Len(bytes) < 22 THEN NoImage
    ELSE IF SubSeq(bytes, 1, 8) # PNG_SIGNATURE THEN NoImage
    ELSE LET w == FromU32(bytes, 9)
             h == FromU32(bytes, 13)
             mode == ModeRead(bytes[17], bytes[18])
             data == SubSeq(bytes, 22, Len(bytes))
         IN  IF data[1] = 255
             THEN << << "screen",
                        [k \in 1..4 |-> Signed16(FromU16(data, 2 * k))] >>,
                     w, h, mode >>
             ELSE IF Len(data) # h * (1 + RowBytes(w, mode)) THEN NoImage
             ELSE << << "samples",
                        [i \in 1..(w * h) |->
                           PixelRead(data, w, mode, (i - 1) \div w + 1,
                                     ((i - 1) % w) + 1)] >>,
                     w, h, mode >>

\* what the payload decodes to (base64, then PNG)
DecodedImage(payload) == PngDecode(b64decode(payload))

\* C8: the image encoded for the vision client is the captured bitmap of
\* the selected rectangle, of size (right - left, bottom - top).
C8_EncodedIsCaptured ==
    base64_image # <<>>
    => DecodedImage(base64_image) = ImageOf(DecodedImage(base64_image)[1][2])

IsString(s) == \A i \in 1..Len(s) : s[i] \in STRING

\* C9: the vision client returns a string on every path and raises nothing:
\* the trimmed response on success, the marker followed by the failure text
\* on a failure of the call or of reading the response.
C9_ClientReturnsString ==
    /\ outcome # <<>> => answer # <<>>
    /\ answer # <<>>
       => /\ answer[1] = "return"
          /\ IsString(answer[2])
          /\ outcome[1] = "ok" => answer[2] = strip(outcome[2])
          /\ outcome[1] # "ok" => answer[2] = PROCESS_PREFIX \o outcome[2]

\* reading the response failed and the cycle went on to render
C9_Witness ==
    /\ pc = "idle"
    /\ outcome # <<>>
    /\ outcome[1] = "read_raises"
    /\ answer[2] = PROCESS_PREFIX \o outcome[2]
    /\ steps[Len(steps)] = "render"

\* the widget shows s and nothing else, unstyled (the line break that ends
\* the last line aside)
ShowsExactly(widget, s) ==
    /\ WidgetText(widget) \in { s, s \o NEWLINE }
    /\ \A i \in 1..Len(widget) : widget[i].tags = {}

\* C10: after a failed vision call the text surface shows exactly the error
\* string, with no markup interpreted, and the preview updated earlier in
\* the cycle is as it was.
C10_ErrorShownVerbatim ==
    (pc = "idle" /\ outcome # <<>> /\ outcome[1] # "ok")
    => /\ ShowsExactly(result_text, PROCESS_PREFIX \o outcome[2])
       /\ image_label = img

\* C11: a failed pixel grab of an accepted selection is caught in the cycle:
\* the text surface then holds 'Error capturing image: ' and the failure text
\* in place of what it held, no vision call is made, the preview is as it
\* was, and the cycle has ended with the main window visible, the flag false
\* and the next trigger admitted.
C11_GrabFailureCaught ==
    [][ (/\ pc = "restore_update" /\ bbox # <<>> /\ master = "alive"
         /\ last' = "grab" /\ pc' = "idle")
        => /\ \E e \in ErrorTexts :
                result_text' = << [text |-> CAPTURE_PREFIX \o e, tags |-> {}] >>
           /\ base64_image' = <<>> /\ outcome' = <<>> /\ answer' = <<>>
           /\ image_label' = image_label
           /\ main_visible'
           /\ ~is_snipping' /\ Admit(is_snipping') /\ active' = 0
    ]_vars

\* a grab failed in a cycle that followed a displayed capture: the preview
\* of the earlier capture is still shown
C11_Witness ==
    /\ pc = "idle"
    /\ last = "grab"
    /\ master = "alive"
    /\ steps = << "hide", "overlay", "wait", "restore", "capture_error" >>
    /\ image_label # NoImage
    /\ \E e \in ErrorTexts :
          result_text = << [text |-> CAPTURE_PREFIX \o e, tags |-> {}] >>

\* the content of the last formatter call, and its source lines
Formatted == answer # <<>> /\ last = "format_and_insert_text"
SourceLines == splitlines(answer[2])

\* the line is a fence line: its trimmed content starts with three backquotes
IsFenceLine(line) == startswith(strip(line), << BT, BT, BT >>)
FenceLines(lines) == { k \in 1..Len(lines) : IsFenceLine(lines[k]) }

\* the last fence line of the input opens a block that is never closed
OpenFence(lines) ==
    IF Cardinality(FenceLines(lines)) % 2 = 1
    THEN CHOOSE k \in FenceLines(lines) : \A j \in FenceLines(lines) : j <= k
    ELSE 0

\* C12: when the input has an opening fence line with no closing fence line
\* after it, the display surface holds the output of the lines before that
\* opening fence and nothing else; a fence line followed by 'abc' emits
\* nothing.
C12_UnterminatedFenceSwallows ==
    Formatted
    => /\ OpenFence(SourceLines) # 0
          => result_text =
               FormatLines([widget |-> EmptyWidget, in_code_block |-> FALSE,
                            code_lines |-> <<>>],
                           SubSeq(SourceLines, 1, OpenFence(SourceLines) - 1)).widget
       /\ answer[2] = FenceAbc => result_text = EmptyWidget

\* a plain line, an opening fence and a line after it: the plain line alone
\* is shown
C12_Witness ==
    /\ Formatted
    /\ SourceLines = << << "a" >>, << BT, BT, BT >>, << "a" >> >>
    /\ OpenFence(SourceLines) = 2
    /\ result_text = << [text |-> << "a" >>, tags |-> {}],
                        [text |-> << "\n" >>, tags |-> {}] >>

\* the widget character by character, each with the tags of its run
RECURSIVE Styled(_)
Styled(widget) ==
    IF widget = <<>> THEN <<>>
    ELSE [i \in 1..Len(Head(widget).text) |->
             [ch |-> Head(widget).text[i], tags |-> Head(widget).tags]]
         \o Styled(Tail(widget))

\* the runs of the widget that are not line breaks of their own
Runs(widget) ==
    SelectSeq(widget, LAMBDA r : r # [text |-> << "\n" >>, tags |-> {}])

\* the block style the claims give a line outside code blocks
BlockStyle(line) ==
    IF startswith(strip(line), << "#", "#", "#", " " >>) THEN {"heading"}
    ELSE IF startswith(strip(line), << "#", "#", " " >>) THEN {"subheading"}
    ELSE IF startswith(strip(line), << "-", " " >>) THEN {"list"}
    ELSE {}

\* the text the line's runs carry: after the marker for a heading or a
\* subheading, the whole trimmed line for a list item, the line otherwise
TextAfterMarker(line) ==
    IF BlockStyle(line) = {"heading"} THEN DropFirst(strip(line), 4)
    ELSE IF BlockStyle(line) = {"subheading"} THEN DropFirst(strip(line), 3)
    ELSE IF BlockStyle(line) = {"list"} THEN strip(line)
    ELSE line

\* the same, the text after a heading or subheading marker trimmed
BlockText(line) ==
    IF BlockStyle(line) \in { {"heading"}, {"subheading"} }
    THEN strip(TextAfterMarker(line))
    ELSE TextAfterMarker(line)

\* the line holds two stars somewhere
HasStars(line) == \E i \in 1..(Len(line) - 1) : line[i] = "*" /\ line[i + 1] = "*"

\* the output for the scenario of section 8, line breaks aside
ScenarioRuns ==
    << [text |-> << "T", "i", "t", "l", "e" >>, tags |-> {"heading"}],
       [text |-> << "p", "l", "a", "i", "n", " " >>, tags |-> {}],
       [text |-> << "b", "o", "l", "d" >>, tags |-> {"bold"}],
       [text |-> << " ", "t", "e", "x", "t" >>, tags |-> {}],
       [text |-> << "-", " ", "i", "t", "e", "m", " ", "o", "n", "e" >>, tags |-> {"list"}],
       [text |-> << "-", " ", "i", "t", "e", "m", " " >>, tags |-> {"list"}],
       [text |-> << "t", "w", "o" >>, tags |-> {"list", "bold"}],
       [text |-> << "c", "o", "d", "e", " ", "l", "i", "n", "e", "\n" >>, tags |-> {"code"}] >>

\* classification of the one line of a one-line content, its text being text
Classified(text) ==
    (Formatted /\ Len(SourceLines) = 1)
    => LET line == SourceLines[1] IN
       IF IsFenceLine(line) THEN result_text = EmptyWidget
       ELSE /\ \A i \in 1..Len(result_text) :
                 \/ result_text[i] = [text |-> << "\n" >>, tags |-> {}]
                 \/ result_text[i].tags \ {"bold"} = BlockStyle(line)
            /\ ~HasStars(line)
               => Runs(result_text) =
                    insert(EmptyWidget, text, BlockStyle(line))

\* C13 as claimed: a fence line emits nothing, before any other rule; then
\* '### ' gives a heading run with the text after the marker, '## ' a
\* subheading run with the text after the marker, '- ' a list run with the
\* whole trimmed line, any other line a run with no block style; the
\* scenario gives its seven runs.
C13_ClassifiedTextAfterMarker ==
    /\ Classified(TextAfterMarker(SourceLines[1]))
    /\ (Formatted /\ answer[2] = Scenario) => Runs(result_text) = ScenarioRuns

\* C13 amended: the same, the heading and subheading runs carrying the text
\* after the marker with the whitespace around it removed.
C13_ClassifiedTrimmedText ==
    /\ Classified(BlockText(SourceLines[1]))
    /\ (Formatted /\ answer[2] = Scenario) => Runs(result_text) = ScenarioRuns

\* the scenario has been formatted
C13_Witness ==
    /\ Formatted
    /\ answer[2] = Scenario
    /\ Len(SourceLines) = 7
    /\ Runs(result_text) = ScenarioRuns

\* the stars right before position i of text
StarsBefore(text, i) ==
    Cardinality({ j \in 1..(i - 1) : \A k \in j..(i - 1) : text[k] = "*" })

\* the double-asterisk delimiters of text, read from the left without
\* overlap: the first, third, ... pair of stars of every run of stars
Delimiters(text) ==
    { i \in 1..(Len(text) - 1) :
        text[i] = "*" /\ text[i + 1] = "*" /\ StarsBefore(text, i) % 2 = 0 }

\* the delimiters that have a partner: all of them, but the last one when
\* their number is odd
PairedDelimiters(text) ==
    { d \in Delimiters(text) :
        Cardinality({ e \in Delimiters(text) : e <= d })
            <= 2 * (Cardinality(Delimiters(text)) \div 2) }

\* position i of text is a star of a paired delimiter
InDelimiter(text, i) ==
    i \in PairedDelimiters(text) \/ (i - 1) \in PairedDelimiters(text)

\* position i of text lies between a delimiter and its partner
InBold(text, i) ==
    Cardinality({ d \in PairedDelimiters(text) : d < i }) % 2 = 1

\* text without its paired delimiters, character by character: the block
\* style everywhere, bold in addition between a delimiter and its partner
ExpectedStyled(text, style) ==
    LET kept == SelectSeq([i \in 1..Len(text) |-> i],
                          LAMBDA i : ~InDelimiter(text, i))
    IN  [k \in 1..Len(kept) |->
           [ch |-> text[kept[k]],
            tags |-> IF InBold(text, kept[k]) THEN style \cup {"bold"} ELSE style]]

\* C14: in a line handled outside code blocks the double-asterisk delimiters
\* are paired leftmost-first without overlap; the text between a pair is
\* emitted without the delimiters, bold on top of the block style; the text
\* outside the pairs has the block style alone; a delimiter without a
\* partner is emitted as it stands; the runs together are the line's text
\* without the paired delimiters.
C14_InlineBold ==
    (Formatted /\ Len(SourceLines) = 1 /\ ~IsFenceLine(SourceLines[1]))
    => /\ Styled(Runs(result_text)) =
            ExpectedStyled(BlockText(SourceLines[1]), BlockStyle(SourceLines[1]))
       /\ \A i \in 1..Len(result_text) :
            "bold" \in result_text[i].tags
            => BlockStyle(SourceLines[1]) \subseteq result_text[i].tags

\* a list item with one pair of delimiters and a star left over
C14_Witness ==
    /\ Formatted
    /\ answer[2] = << "-", " ", "*", "*", "a", "*", "*", "a", "*" >>
    /\ result_text =
         << [text |-> << "-", " " >>, tags |-> {"list"}],
            [text |-> << "a" >>, tags |-> {"list", "bold"}],
            [text |-> << "a", "*" >>, tags |-> {"list"}],
            [text |-> << "\n" >>, tags |-> {}] >>

\* C15: after format_and_insert_text(surface, content) the surface holds the
\* output for content and nothing of what it showed before, whatever it
\* showed and whatever the content, empty content and content that emits
\* nothing included; so the surface reflects the last call alone.
C15_OutputReplacesSurface ==
    Formatted
    => /\ result_text = format_and_insert_text(EmptyWidget, answer[2])
       /\ answer[2] \in { <<>>, FenceAbc } => result_text = EmptyWidget
       /\ Len(WidgetText(result_text)) <= Len(answer[2]) + 1

\* empty content formatted into a surface that showed something
C15_Witness ==
    /\ Formatted
    /\ steps = << "delete", "render" >>
    /\ answer[2] = <<>>
    /\ result_text = EmptyWidget

\* C16: once the overlay has handled a pointer-up or an Escape, the marker
\* rectangle is gone and the teardown that lets the shell's wait return is
\* under way, whatever events came before: a pointer-up with no pointer-down
\* before it, a second Escape, events after the teardown was scheduled.
C16_EventEndsOverlay ==
    (top = "mapped" /\ last \in { "on_button_release", "on_escape" })
    => /\ destroy_scheduled
       /\ rect \notin canvas_items

\* C17: the result is produced once and consumed once: after a pointer-up
\* has decided it no later event of the same overlay changes it; the shell
\* reads it only when the overlay has closed, and grabs at most once with it.
C17_ResultDecidedOnce ==
    /\ [][ (top = "mapped" /\ destroy_scheduled /\ ~escaped
            /\ last' \in { "on_button_press", "on_move_press",
                           "on_button_release", "on_escape" })
           => bbox' = bbox ]_vars
    /\ [](pc \in { "restore_update", "grabbed", "displayed" } => top = "destroyed")
    /\ [](Cardinality({ i \in 1..Len(steps) : steps[i] = "capture" }) <= 1)

\* (min(sx,ex)+ox, min(sy,ey)+oy, max(sx,ex)+ox, max(sy,ey)+oy)
AbsoluteRect(s, e, o) ==
    << (IF s[1] <= e[1] THEN s[1] ELSE e[1]) + o[1],
       (IF s[2] <= e[2] THEN s[2] ELSE e[2]) + o[2],
       (IF s[1] >= e[1] THEN s[1] ELSE e[1]) + o[1],
       (IF s[2] >= e[2] THEN s[2] ELSE e[2]) + o[2] >>

\* C18: a pointer-up after a press at (sx,sy), released at (ex,ey) on an
\* overlay of screen origin (ox,oy), gives the rectangle (min(sx,ex)+ox,
\* min(sy,ey)+oy, max(sx,ex)+ox, max(sy,ey)+oy) when both its dimensions
\* exceed 5, for negative origins too; the shell takes every rectangle for
\* a selection and grabs it, also one whose left or top is zero or negative
\* (the grab is made, or it fails and the cycle leaves by its except branch).
C18_AbsoluteCoordinates ==
    /\ [][ \A p \in Points :
             (last' = "on_button_release" /\ start_xy # <<>> /\ on_button_release(p))
             => LET r == AbsoluteRect(start_xy, p, screen_xy) IN
                IF r[3] - r[1] > 5 /\ r[4] - r[2] > 5
                THEN bbox' = r ELSE bbox' = bbox
       ]_vars
    /\ [][ (pc = "restore_update" /\ last' = "grab" /\ bbox # <<>>)
           => \/ pc' = "grabbed" /\ img' = ImageOf(bbox)
              \/ /\ pc' = "idle"
                 /\ steps'[Len(steps')] \in { "capture_error", "raise" }
       ]_vars

\* a rectangle left of and above the primary display has been grabbed
C18_Witness ==
    /\ pc = "grabbed"
    /\ win
    /\ screen_xy = << -10, -10 >>
    /\ start_xy = << 0, 0 >>
    /\ bbox = << -10, -10, 0, 0 >>
    /\ img = ImageOf(bbox)

\* the lines that are no fence lines and lie in no code block: an even
\* number of fence lines comes before them
OutsideLines(lines) ==
    { k \in 1..Len(lines) :
        /\ ~IsFenceLine(lines[k])
        /\ Cardinality({ j \in FenceLines(lines) : j < k }) % 2 = 0 }

\* the characters of the line's runs
RunText(line) ==
    [k \in 1..Len(ExpectedStyled(BlockText(line), {})) |->
        ExpectedStyled(BlockText(line), {})[k].ch]

\* from line k on: the characters of the runs of every line outside code
\* blocks, each followed by one line break
RECURSIVE TextWithBreaks(_, _)
TextWithBreaks(lines, k) ==
    IF k > Len(lines) THEN <<>>
    ELSE (IF k \in OutsideLines(lines)
          THEN RunText(lines[k]) \o << "\n" >> ELSE <<>>)
         \o TextWithBreaks(lines, k + 1)

\* the runs of the widget that are no code blocks
NonCode(widget) == SelectSeq(widget, LAMBDA r : r.tags # {"code"})

\* C19: every source line that is no fence line and lies in no code block
\* gives exactly one line break, right after the line's runs: heading,
\* subheading, list and plain lines, empty lines, and a last line that had
\* no newline in the input.
C19_OneBreakPerLine ==
    Formatted
    => /\ WidgetText(NonCode(result_text)) = TextWithBreaks(SourceLines, 1)
       /\ Cardinality({ i \in 1..Len(result_text) :
                          result_text[i] = [text |-> << "\n" >>, tags |-> {}] })
            = Cardinality(OutsideLines(SourceLines))

\* a plain line, an empty line and a heading with no newline after it
C19_Witness ==
    /\ Formatted
    /\ answer[2] = << "a", "\n", "\n", "#", "#", "#", " ", "T" >>
    /\ result_text =
         << [text |-> << "a" >>, tags |-> {}],
            [text |-> << "\n" >>, tags |-> {}],
            [text |-> << "\n" >>, tags |-> {}],
            [text |-> << "T" >>, tags |-> {"heading"}],
            [text |-> << "\n" >>, tags |-> {}] >>

\* the modes whose pixel data a PNG file holds unchanged, among those drawn
LosslessModes == { "1", "L", "LA", "RGB", "RGBA", "I;16" }

\* the pixels of an image of mode I with each sample cut off at 0 and 65535
ClippedPixels(image) ==
    [i \in 1..Len(image[1][2]) |-> << Clip16(image[1][2][i][1]) >>]

NthFence(lines, n) ==
    CHOOSE k \in FenceLines(lines) :
        Cardinality({ j \in FenceLines(lines) : j <= k }) = n

\* the lines with one newline between a line and the next
RECURSIVE JoinedByNewlines(_)
JoinedByNewlines(ls) ==
    IF ls = <<>> THEN <<>>
    ELSE IF Len(ls) = 1 THEN ls[1]
    ELSE ls[1] \o << "\n" >> \o JoinedByNewlines(Tail(ls))

\* the text of the b-th code block: the lines between its opening and its
\* closing fence as they stand in the source, joined, and one newline
BlockCode(lines, b) ==
    JoinedByNewlines(SubSeq(lines, NthFence(lines, 2 * b - 1) + 1,
                            NthFence(lines, 2 * b) - 1)) \o << "\n" >>

\* one run tagged code for every fence that closes a block
ExpectedCodeRuns(lines) ==
    [b \in 1..(Cardinality(FenceLines(lines)) \div 2) |->
        [text |-> BlockCode(lines, b), tags |-> {"code"}]]

\* from line k on: what every line puts on the widget, a closing fence its
\* block and a line outside the blocks its runs and one line break
RECURSIVE TextWithBlocks(_, _)
TextWithBlocks(lines, k) ==
    IF k > Len(lines) THEN <<>>
    ELSE LET n == Cardinality({ j \in FenceLines(lines) : j <= k }) IN
         (IF k \in OutsideLines(lines)
          THEN RunText(lines[k]) \o << "\n" >>
          ELSE IF k \in FenceLines(lines) /\ n % 2 = 0
          THEN BlockCode(lines, n \div 2)
          ELSE <<>>)
         \o TextWithBlocks(lines, k + 1)

\* the runs of the widget that carry the code tag
CodeRuns(widget) == SelectSeq(widget, LAMBDA r : "code" \in r.tags)

\* C21: a line whose trimmed content starts with three backquotes toggles
\* the code-block mode, whatever follows the backquotes; the lines between an
\* opening and a closing fence are kept verbatim, untrimmed and with no
\* heading, list or bold reading; the closing fence emits them as exactly one
\* run tagged code, joined by newlines with one newline at the end; and the
\* lines of one block never reach the run of the next block.
C21_FencedCodeBlocks ==
    Formatted
    => /\ CodeRuns(result_text) = ExpectedCodeRuns(SourceLines)
       /\ WidgetText(result_text) = TextWithBlocks(SourceLines, 1)

\* two blocks: the first opened by a fence with text after the backquotes
\* and holding an untrimmed heading and a list item with stars, the second
\* holding one untrimmed line and none of the first block's lines
C21_Witness ==
    /\ Formatted
    /\ answer[2] = TwoBlocks
    /\ result_text =
         << [text |-> << " ", " ", "#", "#", "#", " ", "T", " ", "\n", "-",
                      " ", "*", "*", "b", "*", "*", "\n" >>,
             tags |-> {"code"}],
            [text |-> << "z" >>, tags |-> {}],
            [text |-> << "\n" >>, tags |-> {}],
            [text |-> << " ", "q", " ", "\n" >>, tags |-> {"code"}],
            [text |-> << "e", "n", "d" >>, tags |-> {}],
            [text |-> << "\n" >>, tags |-> {}] >>

(***************************************************************************)
(* C22                                                                     *)
(***************************************************************************)
\* the steps of a cycle that runs to its end, the preview included
FullCycle ==
    << "hide", "overlay", "wait", "restore", "capture", "display", "encode",
       "vision", "render" >>

\* the order of the steps as the specification lists them
ListedOrder ==
    << "hide", "overlay", "wait", "restore", "capture", "encode", "vision",
       "render" >>

IsPrefix(s, t) == Len(s) <= Len(t) /\ SubSeq(t, 1, Len(s)) = s

\* C22: a cycle with an accepted selection takes its steps in the order hide,
\* overlay, wait, restore, capture, encode, vision call, render, each after
\* the one before it: the grab finds no overlay on the screen, the vision
\* client is called at most once in a cycle, and the steps of a cycle are
\* only added to until the cycle has come to its end or its cleanup path,
\* no step of another cycle coming in between.
C22_StepsInOrder ==
    /\ [] /\ active <= 1
          /\ pc \in { "grabbed", "displayed" }
             => (top = "destroyed" /\ overlays = 0 /\ main_visible)
          /\ (\E i \in 1..Len(steps) : steps[i] = "capture")
             => \/ IsPrefix(steps, FullCycle)
                \/ /\ steps[Len(steps)] \in { "capture_error", "raise" }
                   /\ IsPrefix(SubSeq(steps, 1, Len(steps) - 1), FullCycle)
          /\ (\E i \in 1..Len(steps) : steps[i] = "render")
             => SelectSeq(steps, LAMBDA x : x # "display") = ListedOrder
          /\ Cardinality({ i \in 1..Len(steps) : steps[i] = "vision" }) <= 1
    /\ [][ steps' # steps
           => \/ IsPrefix(steps, steps') /\ is_snipping
              \/ ~is_snipping /\ pc = "idle" /\ Len(steps') = 1 ]_vars

\* a cycle that went through every step and is back in the main loop
C22_Witness ==
    /\ pc = "idle"
    /\ last = "process_image"
    /\ steps = FullCycle
    /\ outcome[1] = "ok"
    /\ image_label # NoImage
    /\ ~is_snipping

(***************************************************************************)
(* C23                                                                     *)
(***************************************************************************)
\* C23: the teardown of the overlay never raises into the event dispatcher:
\* when deleting the marker or scheduling the deferred destroy raises, the
\* error is caught and logged and the overlay is destroyed at once, and an
\* error of that destroy is passed over.  The only exception the two handlers
\* that tear the overlay down leave to the dispatcher is the one raised
\* before the teardown, by a pointer-up with no pointer-down before it; and
\* no other step logs or passes over an error of the teardown.
C23_TeardownNeverRaises ==
    /\ last \in { "on_button_release", "on_escape" }
       => /\ \A i \in 1..Len(errors) : errors[i] # REPORTED_TCL
          /\ errors # <<>>
             => \/ /\ errors = << LOGGED >>
                   /\ top = "destroyed"
                   /\ canvas_items = {}
                \/ /\ errors = << LOGGED, SWALLOWED >>
                   /\ top = "destroyed"
                   /\ ~destroy_scheduled
                \/ /\ errors = << REPORTED_TYPE >>
                   /\ last = "on_button_release"
                   /\ start_xy = <<>>
    /\ \A i \in 1..Len(errors) :
         errors[i] \in { LOGGED, SWALLOWED }
         => last \in { "on_button_release", "on_escape" }

\* an Escape whose teardown failed while the shell waits: the error was
\* logged and the overlay is destroyed, with no deferred destroy pending
C23_Witness ==
    /\ pc = "waiting"
    /\ last = "on_escape"
    /\ errors = << LOGGED >>
    /\ top = "destroyed"
    /\ ~destroy_scheduled

(***************************************************************************)
(* C24                                                                     *)
(***************************************************************************)
\* the steps of a cycle whose overlay closed with no selection
NoSelectionCycle == << "hide", "overlay", "wait", "restore", "no_selection" >>

\* C24: a cycle whose overlay ends with no selection (an Escape, or a drag
\* that is too small) grabs no pixels, writes no snapshot and calls no vision
\* client, and leaves the preview and the text widget as they were before
\* the cycle; afterwards the main window is visible and the flag is false.
\* No step before the grab touches the preview or the text widget, the
\* reading of an empty result ends the cycle at once, and the ended cycle
\* has no captured image, no payload and no outcome of a remote call.
C24_NoSelectionCycle ==
    /\ [][ pc \notin { "restore_update", "grabbed", "displayed" }
           => (result_text' = result_text /\ image_label' = image_label) ]_vars
    /\ [][ (pc = "restore_update" /\ bbox = <<>> /\ last' = "grab")
           => /\ pc' = "idle"
              /\ steps' = NoSelectionCycle
              /\ result_text' = result_text
              /\ image_label' = image_label
              /\ main_visible'
              /\ ~is_snipping' ]_vars
    /\ [] ((steps = NoSelectionCycle)
           => /\ img = NoImage
              /\ base64_image = <<>>
              /\ outcome = <<>>
              /\ answer = <<>>
              /\ pc = "idle" /\ main_visible /\ ~is_snipping)

\* a cycle with no selection after a cycle that showed an image and a text:
\* both are still shown
C24_Witness ==
    /\ pc = "idle"
    /\ last = "grab"
    /\ steps = NoSelectionCycle
    /\ image_label # NoImage
    /\ result_text # EmptyWidget
    /\ main_visible
    /\ ~is_snipping

(***************************************************************************)
(* C25                                                                     *)
(***************************************************************************)
\* the step is process_image of ui.py under the event: the remote call had
\* that outcome, or the exception of that text reached capture_area
ModularStep(event) ==
    /\ pc = "displayed"
    /\ last' = "process_image"
    /\ IF event[1] = "raise"
       THEN /\ outcome' = <<>>
            /\ result_text' = insert(EmptyWidget, CAPTURE_PREFIX \o event[2], {})
       ELSE outcome' = event

\* C25: the shell of app.py and the shell of ui.py end a cycle alike: under
\* the same event the text widget has the content app.py's process_image
\* gives it, the preview is the one shown before, the main window is as
\* visible as before and the flag is false.
C25_ShellsEquivalent ==
    [][ \A event \in CycleEvents :
          ModularStep(event)
          => /\ result_text' = app_process_image(result_text, img, event)
             /\ image_label' = image_label
             /\ main_visible' = main_visible
             /\ is_snipping' = FALSE
    ]_vars

====
